---------------------------- MODULE Spec2Model ----------------------------
(***************************************************************************)
(* Model of src/main.py: a Huffman coder.  main() reads a file, counts its *)
(* bytes (get_quantitative_heap), builds the tree (gen_huffman_tree),      *)
(* encodes every byte as a string of the characters '0' and '1'            *)
(* (compress_file, get_huffman_code), writes that string to a file, reads  *)
(* it back and decodes it (get_next_val) until get_next_val returns None.  *)
(*                                                                         *)
(* Python values: None is the empty sequence and a present value x is the  *)
(* one-element sequence <<x>>; a bytes object is a sequence of integers    *)
(* 0..255; a list of lines is a sequence of such sequences.                *)
(***************************************************************************)
EXTENDS Integers, Sequences, FiniteSets

VARIABLES
    input,              \* the bytes of the file given to main (args.file)
    pc,                 \* position in main
    lines,              \* main: lines (first of the input, then of the compressed file)
    li, ci,             \* position of the "for line in file: for char in line" loops
    character_counts,   \* get_quantitative_heap: the dict, in insertion order
    ki,                 \* get_quantitative_heap: position of the loop over the keys
    counts_heap,        \* the heap list (get_quantitative_heap, gen_huffman_tree)
    node1, node2,       \* gen_huffman_tree: the two nodes last popped
    merges,             \* gen_huffman_tree: iterations of the while loop so far
    HuffmanTree,        \* main: HuffmanTree (None until built)
    file_cmprssd,       \* main: the compressed bytes (characters '0' and '1')
    compressed_file,    \* the content of the file "<name>_compressed.<affix>"
    file_de_cmprssd,    \* main: the decoded symbols
    err                 \* the exception that ended main, "none" if none

vars == <<input, pc, lines, li, ci, character_counts, ki, counts_heap, node1,
          node2, merges, HuffmanTree, file_cmprssd, compressed_file,
          file_de_cmprssd, err>>

-----------------------------------------------------------------------------
(* Bounds *)

\* longest input file, in bytes
MaxLen == 4
\* size of the byte alphabet the inputs are drawn from
NumSyms == 4
\* largest count of one symbol in a frequency table drawn directly
MaxCount == 4
\* longest compressed file handed to the decoder directly
MaxBits == 4
\* symbols the decode loop may emit before the model stops following it
MaxOut == 6

\* the character '0'; '1' is ZeroChar + 1 (b'0', b'1', "- 48")
ZeroChar == 48

None == <<>>
Some(x) == <<x>>

\* newline and the first NumSyms - 1 lower-case letters
Alphabet == {10} \cup (97 .. (95 + NumSyms))

Inputs == UNION {[1..n -> Alphabet] : n \in 0..MaxLen}

-----------------------------------------------------------------------------
(* class HuffmanNode *)

HuffmanNode(freq, l_child, r_child, content) ==
    [freq |-> freq, children |-> [l |-> l_child, r |-> r_child], content |-> content]

\* __lt__ with the comparison turned round
node_lt_reversed(a, b) == a.freq > b.freq

\* __lt__: nodes are ordered by frequency alone
node_lt(a, b) == a.freq < b.freq

get_child(node, side) == node.children[side]

is_leaf(node) == node.children["l"] = None /\ node.children["r"] = None

-----------------------------------------------------------------------------
(* heapq, as CPython implements it; positions are 0-based as in the source, *)
(* heap[p + 1] is Python's heap[p].                                         *)

RECURSIVE siftdown(_, _, _, _)
siftdown(heap, startpos, pos, newitem) ==
    LET parentpos == (pos - 1) \div 2 IN
    IF pos > startpos /\ node_lt(newitem, heap[parentpos + 1])
    THEN siftdown([heap EXCEPT ![pos + 1] = heap[parentpos + 1]],
                  startpos, parentpos, newitem)
    ELSE [heap EXCEPT ![pos + 1] = newitem]

RECURSIVE siftup_loop(_, _, _, _)
siftup_loop(heap, pos, endpos, newitem) ==
    LET childpos == 2 * pos + 1
        rightpos == childpos + 1
        smaller == IF rightpos < endpos
                      /\ ~ node_lt(heap[childpos + 1], heap[rightpos + 1])
                   THEN rightpos ELSE childpos
    IN IF childpos < endpos
       THEN siftup_loop([heap EXCEPT ![pos + 1] = heap[smaller + 1]],
                        smaller, endpos, newitem)
       ELSE siftdown(heap, 0, pos, newitem)

siftup(heap) == siftup_loop(heap, 0, Len(heap), heap[1])

heappush(heap, item) == siftdown(Append(heap, item), 0, Len(heap), item)

\* list.pop() in place of heapq.heappop: the last item of the list
heappop_last(heap) ==
    [item |-> heap[Len(heap)], heap |-> SubSeq(heap, 1, Len(heap) - 1)]

\* heappop of a non-empty heap: the item popped and the heap left
heappop(heap) ==
    LET lastelt == heap[Len(heap)]
        rest == SubSeq(heap, 1, Len(heap) - 1)
    IN IF rest # <<>>
       THEN [item |-> rest[1], heap |-> siftup([rest EXCEPT ![1] = lastelt])]
       ELSE [item |-> lastelt, heap |-> <<>>]

-----------------------------------------------------------------------------
(* file.readlines() of a file opened 'rb': the bytes split after each b'\n' *)

RECURSIVE readlines_from(_, _)
readlines_from(bytes, cur) ==
    IF bytes = <<>>
    THEN (IF cur = <<>> THEN <<>> ELSE <<cur>>)
    ELSE IF Head(bytes) = 10
         THEN <<Append(cur, 10)>> \o readlines_from(Tail(bytes), <<>>)
         ELSE readlines_from(Tail(bytes), Append(cur, Head(bytes)))

readlines(bytes) == readlines_from(bytes, <<>>)

\* the position after (l, c) in "for line in file: for char in line"
\* (readlines returns no empty line)
next_pos(file, l, c) == IF c < Len(file[l]) THEN <<l, c + 1>> ELSE <<l + 1, 1>>

-----------------------------------------------------------------------------
(* get_quantitative_heap *)

\* the body of the counting loop: one char added to the dict
count_char(cc, char) ==
    IF \E k \in 1..Len(cc) : cc[k].char = char
    THEN [k \in 1..Len(cc) |->
            IF cc[k].char = char THEN [cc[k] EXCEPT !.n = @ + 1] ELSE cc[k]]
    ELSE Append(cc, [char |-> char, n |-> 1])

\* the body of the loop over the keys: one leaf pushed
push_leaf(heap, entry) ==
    heappush(heap, HuffmanNode(entry.n, None, None, Some(entry.char)))

RECURSIVE count_from(_, _, _, _)
count_from(file, l, c, cc) ==
    IF l > Len(file) THEN cc
    ELSE count_from(file, next_pos(file, l, c)[1], next_pos(file, l, c)[2],
                    count_char(cc, file[l][c]))

RECURSIVE push_from(_, _, _)
push_from(cc, k, heap) ==
    IF k > Len(cc) THEN heap ELSE push_from(cc, k + 1, push_leaf(heap, cc[k]))

get_quantitative_heap(file) == push_from(count_from(file, 1, 1, <<>>), 1, <<>>)

-----------------------------------------------------------------------------
(* gen_huffman_tree *)

\* the iteration with freq = node1._freq, node2._freq left out
merge_step_freq_of_first(heap) ==
    LET p1 == heappop(heap)
        p2 == heappop(p1.heap)
        merged == HuffmanNode(p1.item.freq, Some(p1.item), Some(p2.item), None)
    IN [node1 |-> p1.item, node2 |-> p2.item, heap |-> heappush(p2.heap, merged)]

\* one iteration of the while loop, on a heap of at least two nodes
merge_step(heap) ==
    LET p1 == heappop(heap)
        p2 == heappop(p1.heap)
        merged == HuffmanNode(p1.item.freq + p2.item.freq,
                              Some(p1.item), Some(p2.item), None)
    IN [node1 |-> p1.item, node2 |-> p2.item, heap |-> heappush(p2.heap, merged)]

\* the whole function: None stands for the IndexError of heappop([])
RECURSIVE gen_huffman_tree(_)
gen_huffman_tree(heap) ==
    IF Len(heap) >= 2 THEN gen_huffman_tree(merge_step(heap).heap)
    ELSE IF Len(heap) = 0 THEN None
    ELSE Some(heappop(heap).item)

-----------------------------------------------------------------------------
(* get_huffman_code, compress_file *)

\* get_huffman_code returning "True, code" on the right, b'1' left out
RECURSIVE get_huffman_code_right_unmarked(_, _)
get_huffman_code_right_unmarked(val, huffman_tree) ==
    IF is_leaf(huffman_tree)
    THEN [contain |-> (Some(val) = huffman_tree.content), code |-> <<>>]
    ELSE LET l == get_child(huffman_tree, "l")
             r == get_child(huffman_tree, "r")
             no == [contain |-> FALSE, code |-> <<>>]
             inl == IF l # None THEN get_huffman_code_right_unmarked(val, l[1]) ELSE no
             inr == IF r # None THEN get_huffman_code_right_unmarked(val, r[1]) ELSE no
         IN IF inl.contain
            THEN [contain |-> TRUE, code |-> <<ZeroChar>> \o inl.code]
            ELSE IF inr.contain
                 THEN [contain |-> TRUE, code |-> inr.code]
                 ELSE no

RECURSIVE get_huffman_code(_, _)
get_huffman_code(val, huffman_tree) ==
    IF is_leaf(huffman_tree)
    THEN [contain |-> (Some(val) = huffman_tree.content), code |-> <<>>]
    ELSE LET l == get_child(huffman_tree, "l")
             r == get_child(huffman_tree, "r")
             no == [contain |-> FALSE, code |-> <<>>]
             inl == IF l # None THEN get_huffman_code(val, l[1]) ELSE no
             inr == IF r # None THEN get_huffman_code(val, r[1]) ELSE no
         IN IF inl.contain
            THEN [contain |-> TRUE, code |-> <<ZeroChar>> \o inl.code]
            ELSE IF inr.contain
                 THEN [contain |-> TRUE, code |-> <<ZeroChar + 1>> \o inr.code]
                 ELSE no

\* the whole function, from position (l, c); ok is FALSE when it raises
RECURSIVE compress_from(_, _, _, _, _)
compress_from(file, l, c, huffman_tree, acc) ==
    IF l > Len(file) THEN [ok |-> TRUE, code |-> acc]
    ELSE LET r == get_huffman_code(file[l][c], huffman_tree) IN
         IF ~ r.contain THEN [ok |-> FALSE, code |-> acc]
         ELSE compress_from(file, next_pos(file, l, c)[1], next_pos(file, l, c)[2],
                            huffman_tree, acc \o r.code)

compress_file(file, huffman_tree) == compress_from(file, 1, 1, huffman_tree, <<>>)

-----------------------------------------------------------------------------
(* get_next_val *)

\* bytes(f)[1:]
drop_first(f) == IF f = <<>> THEN <<>> ELSE Tail(f)

\* returns the lines left and the value found (None at the end of the
\* input); err is "ValueError" when the function raises
RECURSIVE get_next_val(_, _)
get_next_val(file, huffman_tree) ==
    IF Len(file) = 0
    THEN [file |-> <<>>, val |-> None, err |-> "none"]
    ELSE IF is_leaf(huffman_tree)
    THEN [file |-> file, val |-> huffman_tree.content, err |-> "none"]
    ELSE IF Len(file[1]) = 0
    THEN get_next_val(Tail(file), huffman_tree)
    ELSE LET bit == file[1][1] - ZeroChar
             rest == [k \in 1..Len(file) |-> drop_first(file[k])]
         IN IF bit = 0 THEN get_next_val(rest, get_child(huffman_tree, "l")[1])
            ELSE IF bit = 1 THEN get_next_val(rest, get_child(huffman_tree, "r")[1])
            ELSE [file |-> file, val |-> None, err |-> "ValueError"]

-----------------------------------------------------------------------------
(* files_equal: the first min(len) lines of the two files compared *)

files_equal(bytes1, bytes2) ==
    LET lines1 == readlines(bytes1)
        lines2 == readlines(bytes2)
        n == IF Len(lines1) < Len(lines2) THEN Len(lines1) ELSE Len(lines2)
    IN \A i \in 1..n : lines1[i] = lines2[i]

-----------------------------------------------------------------------------
(* main, step by step *)

Init ==
    /\ input \in Inputs
    /\ pc = "count"
    /\ lines = readlines(input)
    /\ li = 1 /\ ci = 1
    /\ character_counts = <<>>
    /\ ki = 1
    /\ counts_heap = <<>>
    /\ node1 = None /\ node2 = None
    /\ merges = 0
    /\ HuffmanTree = None
    /\ file_cmprssd = <<>>
    /\ compressed_file = <<>>
    /\ file_de_cmprssd = <<>>
    /\ err = "none"

\* get_quantitative_heap, first loop: one char counted
CountChar ==
    /\ pc = "count" /\ li <= Len(lines)
    /\ character_counts' = count_char(character_counts, lines[li][ci])
    /\ li' = next_pos(lines, li, ci)[1]
    /\ ci' = next_pos(lines, li, ci)[2]
    /\ UNCHANGED <<input, pc, lines, ki, counts_heap, node1, node2, merges,
                   HuffmanTree, file_cmprssd, file_de_cmprssd, err, compressed_file>>

CountDone ==
    /\ pc = "count" /\ li > Len(lines)
    /\ pc' = "push" /\ ki' = 1
    /\ UNCHANGED <<input, lines, li, ci, character_counts, counts_heap, node1,
                   node2, merges, HuffmanTree, file_cmprssd, file_de_cmprssd, err, compressed_file>>

\* get_quantitative_heap, second loop: one leaf pushed
PushLeaf ==
    /\ pc = "push" /\ ki <= Len(character_counts)
    /\ counts_heap' = push_leaf(counts_heap, character_counts[ki])
    /\ ki' = ki + 1
    /\ UNCHANGED <<input, pc, lines, li, ci, character_counts, node1, node2,
                   merges, HuffmanTree, file_cmprssd, file_de_cmprssd, err, compressed_file>>

\* get_quantitative_heap returns; gen_huffman_tree is entered
PushDone ==
    /\ pc = "push" /\ ki > Len(character_counts)
    /\ pc' = "merge"
    /\ UNCHANGED <<input, lines, li, ci, character_counts, ki, counts_heap, node1,
                   node2, merges, HuffmanTree, file_cmprssd, file_de_cmprssd, err, compressed_file>>

\* gen_huffman_tree: one iteration of the while loop
Merge ==
    /\ pc = "merge" /\ Len(counts_heap) >= 2
    /\ LET m == merge_step(counts_heap) IN
         /\ node1' = Some(m.node1)
         /\ node2' = Some(m.node2)
         /\ counts_heap' = m.heap
    /\ merges' = merges + 1
    /\ UNCHANGED <<input, pc, lines, li, ci, character_counts, ki, HuffmanTree,
                   file_cmprssd, file_de_cmprssd, err, compressed_file>>

\* gen_huffman_tree: the loop has ended, "return heapq.heappop(heap)";
\* heappop of an empty list raises IndexError, which main does not catch
ReturnRoot ==
    /\ pc = "merge" /\ Len(counts_heap) < 2
    /\ IF Len(counts_heap) = 0
       THEN /\ pc' = "raised" /\ err' = "IndexError"
            /\ UNCHANGED <<counts_heap, HuffmanTree, li, ci, compressed_file>>
       ELSE /\ HuffmanTree' = Some(heappop(counts_heap).item)
            /\ counts_heap' = heappop(counts_heap).heap
            /\ pc' = "compress" /\ li' = 1 /\ ci' = 1
            /\ err' = err
    /\ UNCHANGED <<input, lines, character_counts, ki, node1, node2, merges,
                   file_cmprssd, file_de_cmprssd, compressed_file>>

\* compress_file: one char encoded
CompressChar ==
    /\ pc = "compress" /\ li <= Len(lines)
    /\ LET r == get_huffman_code(lines[li][ci], HuffmanTree[1]) IN
         IF ~ r.contain
         THEN /\ pc' = "raised" /\ err' = "Exception"
              /\ UNCHANGED <<file_cmprssd, li, ci, compressed_file>>
         ELSE /\ file_cmprssd' = file_cmprssd \o r.code
              /\ li' = next_pos(lines, li, ci)[1]
              /\ ci' = next_pos(lines, li, ci)[2]
              /\ UNCHANGED <<pc, err, compressed_file>>
    /\ UNCHANGED <<input, lines, character_counts, ki, counts_heap, node1, node2,
                   merges, HuffmanTree, file_de_cmprssd, compressed_file>>

\* compress_file returns; the compressed file is written and read back
WriteAndReadBack ==
    /\ pc = "compress" /\ li > Len(lines)
    /\ compressed_file' = file_cmprssd
    /\ lines' = readlines(compressed_file')
    /\ pc' = "decode"
    /\ UNCHANGED <<input, li, ci, character_counts, ki, counts_heap, node1, node2,
                   merges, HuffmanTree, file_cmprssd, file_de_cmprssd, err>>

\* the decode loop: one call of get_next_val and the test of its result.
\* chr(val) is kept as the code point; replace("\r\n", "\n") changes nothing
\* over Alphabet, which has no "\r".
DecodeStep ==
    /\ pc = "decode" /\ Len(file_de_cmprssd) < MaxOut
    /\ LET r == get_next_val(lines, HuffmanTree[1]) IN
         IF r.err # "none"
         THEN /\ pc' = "raised" /\ err' = r.err
              /\ UNCHANGED <<lines, file_de_cmprssd, compressed_file>>
         ELSE /\ lines' = r.file
              /\ err' = err
              /\ IF r.val = None
                 THEN pc' = "verify" /\ file_de_cmprssd' = file_de_cmprssd
                 ELSE pc' = pc /\ file_de_cmprssd' = Append(file_de_cmprssd, r.val[1])
    /\ UNCHANGED <<input, li, ci, character_counts, ki, counts_heap, node1, node2,
                   merges, HuffmanTree, file_cmprssd, compressed_file>>

\* the decompressed file is written and files_equal compares it with the input
Verify ==
    /\ pc = "verify"
    /\ IF files_equal(input, file_de_cmprssd)
       THEN pc' = "done" /\ err' = err
       ELSE pc' = "raised" /\ err' = "Exception"
    /\ UNCHANGED <<input, lines, li, ci, character_counts, ki, counts_heap, node1,
                   node2, merges, HuffmanTree, file_cmprssd, file_de_cmprssd, compressed_file>>

Next ==
    \/ CountChar \/ CountDone \/ PushLeaf \/ PushDone \/ Merge \/ ReturnRoot
    \/ CompressChar \/ WriteAndReadBack \/ DecodeStep \/ Verify

Spec == Init /\ [][Next]_vars

-----------------------------------------------------------------------------
(* gen_huffman_tree on any frequency table: the dict holds the letters     *)
(* 'a', 'b', ... in this order of insertion, each with a count of          *)
(* 1..MaxCount, as after counting the file "a..ab..b...".                  *)

FreqTables ==
    UNION {{[k \in 1..m |-> [char |-> 96 + k, n |-> f[k]]] : f \in [1..m -> 1..MaxCount]}
           : m \in 0..NumSyms}

RECURSIVE file_of(_)
file_of(cc) ==
    IF cc = <<>> THEN <<>>
    ELSE [i \in 1..Head(cc).n |-> Head(cc).char] \o file_of(Tail(cc))

InitFreq ==
    /\ character_counts \in FreqTables
    /\ input = file_of(character_counts)
    /\ lines = readlines(input)
    /\ li = Len(lines) + 1 /\ ci = 1
    /\ pc = "push" /\ ki = 1
    /\ counts_heap = <<>>
    /\ node1 = None /\ node2 = None
    /\ merges = 0
    /\ HuffmanTree = None
    /\ file_cmprssd = <<>>
    /\ compressed_file = <<>>
    /\ file_de_cmprssd = <<>>
    /\ err = "none"

NextFreq == PushLeaf \/ PushDone \/ Merge \/ ReturnRoot

SpecFreq == InitFreq /\ [][NextFreq]_vars

-----------------------------------------------------------------------------
(* The decoder on any compressed file: the file read back holds any string *)
(* of the characters '0' and '1', not only the one main wrote.             *)

BitStrings == UNION {[1..n -> {ZeroChar, ZeroChar + 1}] : n \in 0..MaxBits}

ReadBackAny ==
    /\ pc = "compress" /\ li > Len(lines)
    /\ compressed_file' \in BitStrings
    /\ lines' = readlines(compressed_file')
    /\ pc' = "decode"
    /\ UNCHANGED <<input, li, ci, character_counts, ki, counts_heap, node1, node2,
                   merges, HuffmanTree, file_cmprssd, file_de_cmprssd, err>>

NextDecode ==
    \/ CountChar \/ CountDone \/ PushLeaf \/ PushDone \/ Merge \/ ReturnRoot
    \/ CompressChar \/ ReadBackAny \/ DecodeStep \/ Verify

SpecDecode == Init /\ [][NextDecode]_vars

-----------------------------------------------------------------------------
(* Vocabulary of the properties *)

Range(f) == {f[i] : i \in DOMAIN f}

\* the contents of the leaves of a tree
RECURSIVE LeafSymbols(_)
LeafSymbols(t) ==
    IF is_leaf(t) THEN Range(t.content)
    ELSE UNION {LeafSymbols(c[1]) : c \in {get_child(t, "l"), get_child(t, "r")} \ {None}}

CodeOf(t, sym) == get_huffman_code(sym, t).code

IsPrefix(a, b) == Len(a) <= Len(b) /\ SubSeq(b, 1, Len(a)) = a

RECURSIVE SumCounts(_)
SumCounts(cc) == IF cc = <<>> THEN 0 ELSE Head(cc).n + SumCounts(Tail(cc))

RECURSIVE SumFreq(_)
SumFreq(heap) == IF heap = <<>> THEN 0 ELSE Head(heap).freq + SumFreq(Tail(heap))

RECURSIVE TotalLen(_)
TotalLen(file) == IF file = <<>> THEN 0 ELSE Len(Head(file)) + TotalLen(Tail(file))

Min(S) == CHOOSE x \in S : \A y \in S : x <= y

RECURSIVE Pow2(_)
Pow2(n) == IF n = 0 THEN 1 ELSE 2 * Pow2(n - 1)

\* the weighted length of the code the tree gives the symbols of the table
CodeCost(t, cc) ==
    SumCounts([k \in 1..Len(cc) |-> [n |-> cc[k].n * Len(CodeOf(t, cc[k].char))]])

\* Costs of the binary prefix codes for the symbols k.. of the table: by
\* Kraft's inequality, code lengths d belong to a binary prefix code exactly
\* when the sum of 2^(-d) is at most 1; budget is what is left of 1, in units
\* of 2^(-D).  No reference is made to the tree.
RECURSIVE PrefixCodeCosts(_, _, _, _)
PrefixCodeCosts(cc, k, D, budget) ==
    IF k > Len(cc) THEN {0}
    ELSE UNION {{cc[k].n * d + c : c \in PrefixCodeCosts(cc, k + 1, D, budget - Pow2(D - d))}
                : d \in {e \in 0..D : Pow2(D - e) <= budget}}

MinPrefixCodeCost(cc) == Min(PrefixCodeCosts(cc, 1, Len(cc), Pow2(Len(cc))))

\* the table of another file is the same symbol-to-count mapping
SameCounts(cc1, cc2) == Range(cc1) = Range(cc2)

CountsOf(bytes) == count_from(readlines(bytes), 1, 1, <<>>)

TreeOf(bytes) == gen_huffman_tree(get_quantitative_heap(readlines(bytes)))

Terminated == pc \in {"done", "raised"}

\* the decode loop has ended without an exception
Decoded == pc \in {"verify", "done"}

SingleSymbol == Cardinality(Range(input)) = 1

\* Reading bits from the root, the bits run out at an internal node after
\* at least one bit was read since the last leaf.
RECURSIVE EndsInsideSymbol(_, _, _, _)
EndsInsideSymbol(bits, node, root, fresh) ==
    IF is_leaf(node)
    THEN (IF is_leaf(root) THEN FALSE ELSE EndsInsideSymbol(bits, root, root, TRUE))
    ELSE IF bits = <<>> THEN ~ fresh
    ELSE EndsInsideSymbol(Tail(bits),
                          get_child(node, IF Head(bits) = ZeroChar THEN "l" ELSE "r")[1],
                          root, FALSE)

-----------------------------------------------------------------------------
(* Properties *)

\* C1: round trip.  Whatever the input (empty, one byte repeated, several
\* byte values), main's run ends without an exception and the symbols
\* decoded by the get_next_val loop are the input's bytes in order.
C1_RoundTrip ==
    Terminated => (err = "none" /\ file_de_cmprssd = input)

\* C2: prefix-freedom.  In every tree gen_huffman_tree returns, every symbol
\* of the tree is found by get_huffman_code, and for two distinct symbols
\* a, b the code of a is not a prefix of the code of b (a and b range over
\* ordered pairs, so the reverse holds as well).
C2_PrefixFree ==
    HuffmanTree # None =>
        \A a, b \in LeafSymbols(HuffmanTree[1]) :
            /\ get_huffman_code(a, HuffmanTree[1]).contain
            /\ a # b => ~ IsPrefix(CodeOf(HuffmanTree[1], a), CodeOf(HuffmanTree[1], b))

\* a tree of four symbols, with codes of different lengths
C2_Witness ==
    /\ HuffmanTree # None
    /\ Cardinality(LeafSymbols(HuffmanTree[1])) = 4
    /\ \E a, b \in LeafSymbols(HuffmanTree[1]) :
          Len(CodeOf(HuffmanTree[1], a)) < Len(CodeOf(HuffmanTree[1], b))

\* C3: optimality.  The sum over the symbols of freq(s) * len(code(s)) in
\* the tree built equals the least such sum over all binary prefix codes
\* for the frequency table.
C3_Optimal ==
    HuffmanTree # None =>
        CodeCost(HuffmanTree[1], character_counts) = MinPrefixCodeCost(character_counts)

\* four symbols of unequal counts whose best code has lengths 1, 2, 3, 3
C3_Witness ==
    /\ HuffmanTree # None
    /\ Len(character_counts) = 4
    /\ \E a, b \in LeafSymbols(HuffmanTree[1]) :
          Len(CodeOf(HuffmanTree[1], a)) = 1 /\ Len(CodeOf(HuffmanTree[1], b)) = 3

\* C4: determinism from the frequency table alone.  Every file with the same
\* symbol-to-count mapping as the input gives the same tree as the input.
C4_SameTableSameTree ==
    HuffmanTree # None =>
        \A other \in Inputs :
            SameCounts(CountsOf(other), character_counts)
                => TreeOf(other) = HuffmanTree

\* C5: an input of k >= 1 occurrences of one byte value gives that byte a
\* code of one bit, and decoding gives back the k occurrences.
C5_SingleSymbol ==
    SingleSymbol =>
        /\ HuffmanTree # None => Len(CodeOf(HuffmanTree[1], input[1])) = 1
        /\ Decoded => file_de_cmprssd = input

\* C6: the empty input is not fatal: no exception ends the run, and the
\* decoded output is empty.
C6_EmptyInputNotFatal ==
    input = <<>> => (err = "none" /\ file_de_cmprssd = <<>>)

\* C7: corruption detection.  When the compressed file read back ends inside
\* a symbol (at an internal node, after at least one bit read since the last
\* leaf), the decode loop does not end without an exception.
C7_TruncationDetected ==
    (HuffmanTree # None /\ Decoded)
        => ~ EndsInsideSymbol(compressed_file, HuffmanTree[1], HuffmanTree[1], TRUE)

\* C8: merge step.  After every iteration of the loop of gen_huffman_tree,
\* node1 and node2 are the two nodes extracted, freq(node1) <= freq(node2) <=
\* the frequency of every node left in the heap, and the heap holds the node
\* of frequency freq(node1) + freq(node2) with node1 on the left and node2 on
\* the right; each merge makes the heap one node shorter, so that for N >= 1
\* symbols the loop ends with one node after N - 1 merges.
C8_MergeStep ==
    LET N == Len(character_counts) IN
    /\ pc = "merge" => Len(counts_heap) + merges = N
    /\ (pc = "merge" /\ Len(counts_heap) < 2 /\ N >= 1)
          => (Len(counts_heap) = 1 /\ merges = N - 1)
    /\ HuffmanTree # None => merges = N - 1
    /\ (pc = "merge" /\ merges > 0) =>
          LET merged == HuffmanNode(node1[1].freq + node2[1].freq, node1, node2, None) IN
          /\ node1[1].freq <= node2[1].freq
          /\ \E k \in 1..Len(counts_heap) : counts_heap[k] = merged
          /\ \A k \in 1..Len(counts_heap) :
                counts_heap[k] # merged => node2[1].freq <= counts_heap[k].freq

\* the third merge of four symbols has been made
C8_Witness ==
    pc = "merge" /\ merges = 3 /\ Len(counts_heap) = 1 /\ Len(character_counts) = 4

\* C9: frequency conservation.  No entry of the table is zero; once counting
\* is done the counts sum to the length of the input; the frequencies in the
\* heap sum to the same before and after every merge; the root returned has
\* that sum as its frequency.
C9_FrequencyConserved ==
    /\ \A k \in 1..Len(character_counts) : character_counts[k].n >= 1
    /\ pc # "count" => SumCounts(character_counts) = Len(input)
    /\ pc = "merge" => SumFreq(counts_heap) = SumCounts(character_counts)
    /\ HuffmanTree # None => HuffmanTree[1].freq = SumCounts(character_counts)

\* a root built by two merges or more from a file of unequal counts
C9_Witness ==
    /\ HuffmanTree # None /\ merges >= 2
    /\ \E k \in 1..Len(character_counts) : character_counts[k].n >= 2

\* C10: every call of get_next_val that returns a symbol has consumed at
\* least one character of the compressed file, whatever the tree and the
\* file.
C10_SymbolConsumesBit ==
    [][(pc = "decode" /\ Len(file_de_cmprssd') > Len(file_de_cmprssd))
          => TotalLen(lines') < TotalLen(lines)]_vars

=============================================================================
